---- MODULE Spec2Model ----
(***************************************************************************)
(* A model of p5.grain 0.4.0 (src/p5.grain.js): the P5Grain instance, its  *)
(* public operations and the host calls they make.                         *)
(*                                                                         *)
(* JavaScript values are records [t, i, f, s]: t is the value's typeof,    *)
(* a number is i + f/FracDen (i an integer, f in 0..FracDen-1), a boolean  *)
(* has i = 1 for true, a string or a class name is s.  An object carries   *)
(* its properties as further fields.                                       *)
(***************************************************************************)
EXTENDS Integers, Sequences, FiniteSets, TLC

\* ---------------------------------------------------------------- bounds
MaxDest == 3
MaxTile == 2
MaxAmount == 2
MaxAtFrame == 2
MaxCalls == 6
MaxSide == 2
RandDen == 4
FracDen == 4

\* ---------------------------------------------------------------- values
Undefined == [t |-> "undefined", i |-> 0, f |-> 0, s |-> ""]
Num(i, f) == [t |-> "number", i |-> i, f |-> f, s |-> ""]
Whole(n) == Num(n, 0)
Bool(b) == [t |-> "boolean", i |-> (IF b THEN 1 ELSE 0), f |-> 0, s |-> ""]
Str(s) == [t |-> "string", i |-> 0, f |-> 0, s |-> s]
Fn(s) == [t |-> "function", i |-> 0, f |-> 0, s |-> s]
Obj(cls) == [t |-> "object", i |-> 0, f |-> 0, s |-> cls]

typeof(v) == v.t
instanceof(v, cls) == v.t = "object" /\ v.s = cls
\* o.p, undefined when o has no such property
Get(o, p) == IF p \in DOMAIN o THEN o[p] ELSE Undefined
\* the truthiness of a value (undefined, 0, false and '' are falsy)
Truthy(v) ==
    CASE v.t = "undefined" -> FALSE
      [] v.t = "number" -> v.i # 0 \/ v.f # 0
      [] v.t = "boolean" -> v.i = 1
      [] v.t = "string" -> v.s # ""
      [] OTHER -> TRUE
\* p5's round (Math.round): the nearest integer, a half rounds up
round(v) == v.i + (IF 2 * v.f >= FracDen THEN 1 ELSE 0)
\* p5's min
min(a, b) == IF a <= b THEN a ELSE b
\* floor(this.#random() * n) for the random value k / RandDen
floorRandomTimes(k, n) == (k * n) \div RandDen

MULTIPLY == "multiply"
DARKEST == "darken"
BLEND == "source-over"

\* ----------------------------------------------------------------- state
VARIABLES
    ignoreWarnings,       \* P5Grain.ignoreWarnings
    ignoreErrors,         \* P5Grain.ignoreErrors
    random,               \* P5Grain.#random: the name of the random function
    textureAnimateState,  \* P5Grain.#textureAnimate
    textureOverlayState,  \* P5Grain.#textureOverlay
    style,                \* the texture element's offset, as last styled
    pixels,               \* the pixel buffer last loaded and committed
    call,                 \* the last call: operation, resolved arguments
    outcome,              \* how it ended: none, returned, threw, hang
    hostCalls,            \* the host calls it made, in order
    history               \* what the calls so far were (read by no operation)

vars == <<ignoreWarnings, ignoreErrors, random, textureAnimateState,
          textureOverlayState, style, pixels, call, outcome, hostCalls,
          history>>

p5grain == <<ignoreWarnings, ignoreErrors, random, textureAnimateState,
             textureOverlayState>>

\* constructor
Init ==
    /\ ignoreWarnings = FALSE
    /\ ignoreErrors = FALSE
    /\ random = "Math.random"
    /\ textureAnimateState = [frameCount |-> 0]
    /\ textureOverlayState = [frameCount |-> 0, tX_anchor |-> 0, tX |-> 0, tY |-> 0]
    /\ style = [prop |-> "", x |-> 0, y |-> 0]
    /\ pixels = <<>>
    /\ call = [op |-> "none"]
    /\ outcome = "none"
    /\ hostCalls = <<>>
    /\ history = [atFrame |-> [textureOverlay |-> <<>>, textureAnimate |-> <<>>],
                  calls |-> [canvas |-> 0, pg1 |-> 0, element |-> 0]]

\* ------------------------------------------------------ #validateArguments
\* an optional argument or property of the wrong type
wrongType(v, type) == typeof(v) # "undefined" /\ typeof(v) # type
wrongClass(v, cls) == typeof(v) # "undefined" /\ ~instanceof(v, cls)

\* TRUE when #validateArguments(method, args) throws
validateArguments(method, args) ==
    /\ ~ignoreErrors
    /\ CASE method = "setup" ->
              \/ wrongType(args[1], "object")
              \/ /\ typeof(args[1]) = "object"
                 /\ \/ wrongType(Get(args[1], "random"), "function")
                    \/ wrongType(Get(args[1], "ignoreErrors"), "boolean")
                    \/ wrongType(Get(args[1], "ignoreWarnings"), "boolean")
         [] method \in {"granulateSimple", "granulateChannels"} ->
              \/ typeof(args[1]) # "number"
              \/ wrongType(args[2], "boolean")
              \/ wrongClass(args[3], "p5.Graphics")
         [] method = "tinkerPixels" ->
              \/ typeof(args[1]) # "function"
              \/ wrongClass(args[2], "p5.Graphics")
         [] method = "textureAnimate" ->
              \/ ~(\/ instanceof(args[1], "HTMLElement")
                   \/ instanceof(args[1], "SVGElement")
                   \/ instanceof(args[1], "p5.Element"))
              \/ wrongType(args[2], "object")
              \/ /\ typeof(args[2]) = "object"
                 /\ \/ wrongType(Get(args[2], "atFrame"), "number")
                    \/ wrongType(Get(args[2], "amount"), "number")
         [] method = "textureOverlay" ->
              \/ ~instanceof(args[1], "p5.Image")
              \/ wrongType(args[2], "object")
              \/ /\ typeof(args[2]) = "object"
                 /\ \/ wrongType(Get(args[2], "width"), "number")
                    \/ wrongType(Get(args[2], "height"), "number")
                    \/ wrongType(Get(args[2], "mode"), "string")
                    \/ wrongType(Get(args[2], "reflect"), "boolean")
              \/ wrongClass(args[3], "p5.Graphics")
         [] OTHER -> FALSE

\* ------------------------------------------------ host calls and errors
\* one host call: f is the function, a its arguments
HostCall(f, a) == [f |-> f, a |-> a]

\* a call that throws after it has loaded the pixel buffer
ThrowsLate(op, target, args) ==
    /\ call' = [op |-> op, target |-> target, checked |-> ~ignoreErrors,
                args |-> args]
    /\ outcome' = "threw"
    /\ hostCalls' = <<HostCall("loadPixels", <<>>)>>
    /\ UNCHANGED <<p5grain, style, pixels>>

\* a call that throws before doing anything
Throws(op, target, args) ==
    /\ call' = [op |-> op, target |-> target, checked |-> ~ignoreErrors,
                args |-> args]
    /\ outcome' = "threw"
    /\ hostCalls' = <<>>
    /\ UNCHANGED <<p5grain, style, pixels>>

\* -------------------------------------------------------- textureOverlay
\* the animation step taken whether or not the call asks for animation
animateTextureCoordinatesUnasked(st, _animate, _animateAtFrame, _animateAmount, r1, r2) ==
    LET n == st.frameCount + 1 IN
    IF n >= _animateAtFrame
    THEN [st EXCEPT !.tX_anchor = -floorRandomTimes(r1, _animateAmount),
                    !.tY = -floorRandomTimes(r2, _animateAmount),
                    !.frameCount = 0]
    ELSE [st EXCEPT !.frameCount = n]

\* the animation step keeping its counter when it shifts
animateTextureCoordinatesNoReset(st, _animate, _animateAtFrame, _animateAmount, r1, r2) ==
    IF _animate
    THEN LET n == st.frameCount + 1 IN
         IF n >= _animateAtFrame
         THEN [st EXCEPT !.tX_anchor = -floorRandomTimes(r1, _animateAmount),
                         !.tY = -floorRandomTimes(r2, _animateAmount),
                         !.frameCount = n]
         ELSE [st EXCEPT !.frameCount = n]
    ELSE st

\* the animation step shifting one call early
animateTextureCoordinatesEarly(st, _animate, _animateAtFrame, _animateAmount, r1, r2) ==
    IF _animate
    THEN LET n == st.frameCount + 1 IN
         IF n + 1 >= _animateAtFrame
         THEN [st EXCEPT !.tX_anchor = -floorRandomTimes(r1, _animateAmount),
                         !.tY = -floorRandomTimes(r2, _animateAmount),
                         !.frameCount = 0]
         ELSE [st EXCEPT !.frameCount = n]
    ELSE st

\* the animation step: the state of #textureOverlay after it
animateTextureCoordinates(st, _animate, _animateAtFrame, _animateAmount, r1, r2) ==
    IF _animate
    THEN LET n == st.frameCount + 1 IN
         IF n >= _animateAtFrame
         THEN [st EXCEPT !.tX_anchor = -floorRandomTimes(r1, _animateAmount),
                         !.tY = -floorRandomTimes(r2, _animateAmount),
                         !.frameCount = 0]
         ELSE [st EXCEPT !.frameCount = n]
    ELSE st

\* drawTile with the mirrored column and the mirrored row exchanged
drawTileSwapped(_reflect, tRowFirst, tColFirst, tX, tY, tW, tH) ==
    IF _reflect
    THEN <<HostCall("push", <<>>)>>
         \o (IF tRowFirst
             THEN IF tColFirst
                  THEN <<HostCall("image", <<tX, tY, tW, tH>>)>>
                  ELSE <<HostCall("scale", <<1, -1>>),
                         HostCall("image", <<tX, -tY, tW, -tH>>)>>
             ELSE IF tColFirst
                  THEN <<HostCall("scale", <<-1, 1>>),
                         HostCall("image", <<-tX, tY, -tW, tH>>)>>
                  ELSE <<HostCall("scale", <<-1, -1>>),
                         HostCall("image", <<-tX, -tY, -tW, -tH>>)>>)
         \o <<HostCall("pop", <<>>)>>
    ELSE <<HostCall("image", <<tX, tY, tW, tH>>)>>

\* drawTile without push and pop around the unmirrored tile
drawTileUnscoped(_reflect, tRowFirst, tColFirst, tX, tY, tW, tH) ==
    IF _reflect
    THEN (IF tRowFirst /\ tColFirst THEN <<>> ELSE <<HostCall("push", <<>>)>>)
         \o (IF tRowFirst
             THEN IF tColFirst
                  THEN <<HostCall("image", <<tX, tY, tW, tH>>)>>
                  ELSE <<HostCall("scale", <<-1, 1>>),
                         HostCall("image", <<-tX, tY, -tW, tH>>)>>
             ELSE IF tColFirst
                  THEN <<HostCall("scale", <<1, -1>>),
                         HostCall("image", <<tX, -tY, tW, -tH>>)>>
                  ELSE <<HostCall("scale", <<-1, -1>>),
                         HostCall("image", <<-tX, -tY, -tW, -tH>>)>>)
         \o (IF tRowFirst /\ tColFirst THEN <<>> ELSE <<HostCall("pop", <<>>)>>)
    ELSE <<HostCall("image", <<tX, tY, tW, tH>>)>>

\* the host calls that draw one tile at (tX, tY)
drawTile(_reflect, tRowFirst, tColFirst, tX, tY, tW, tH) ==
    IF _reflect
    THEN <<HostCall("push", <<>>)>>
         \o (IF tRowFirst
             THEN IF tColFirst
                  THEN <<HostCall("image", <<tX, tY, tW, tH>>)>>
                  ELSE <<HostCall("scale", <<-1, 1>>),
                         HostCall("image", <<-tX, tY, -tW, tH>>)>>
             ELSE IF tColFirst
                  THEN <<HostCall("scale", <<1, -1>>),
                         HostCall("image", <<tX, -tY, tW, -tH>>)>>
                  ELSE <<HostCall("scale", <<-1, -1>>),
                         HostCall("image", <<-tX, -tY, -tW, -tH>>)>>)
         \o <<HostCall("pop", <<>>)>>
    ELSE <<HostCall("image", <<tX, tY, tW, tH>>)>>

\* The inner while loop from its test, in the row at tY: the cursor, the
\* flags and the host calls when it is left.  p holds the values the loops
\* only read.  A row of more than p.fuel tiles is one the loop never leaves
\* (done = FALSE).
RECURSIVE whileColumns(_, _, _, _, _, _, _)
whileColumns(p, tX, tY, tRowFirst, tColFirst, log, fuel) ==
    IF tX < p._width
    THEN IF fuel = 0
         THEN [tX |-> tX, tY |-> tY, tColFirst |-> tColFirst, log |-> log,
               done |-> FALSE]
         ELSE LET drawn == log \o drawTile(p._reflect, tRowFirst, tColFirst,
                                           tX, tY, p.tW, p.tH)
              IN  IF tX + p.tW >= p._width
                  THEN [tX |-> p.tX_anchor, tY |-> tY + p.tH, tColFirst |-> TRUE,
                        log |-> drawn, done |-> TRUE]              \* break
                  ELSE whileColumns(p, tX + p.tW, tY, tRowFirst, ~tColFirst,
                                    drawn, fuel - 1)
    ELSE [tX |-> tX, tY |-> tY, tColFirst |-> tColFirst, log |-> log,
          done |-> TRUE]

\* The outer while loop from its test: the host calls of the sweep, whether
\* it returned, and the iterations of the outer loop it made.  A sweep of
\* more than p.fuel rows is one that never returns.
RECURSIVE whileRows(_, _, _, _, _, _, _)
whileRows(p, tX, tY, tRowFirst, tColFirst, log, fuel) ==
    IF tY < p._height
    THEN IF fuel = 0
         THEN [log |-> log, done |-> FALSE, iterations |-> p.fuel]
         ELSE LET row == whileColumns(p, tX, tY, tRowFirst, tColFirst, log, p.fuel)
              IN  IF row.done
                  THEN whileRows(p, row.tX, row.tY, ~tRowFirst, row.tColFirst,
                                 row.log, fuel - 1)
                  ELSE [log |-> row.log, done |-> FALSE,
                        iterations |-> p.fuel - fuel + 1]
    ELSE [log |-> log, done |-> TRUE, iterations |-> p.fuel - fuel]

\* the tiles of a row, and the rows, after which a sweep counts as not
\* returning: more than any sweep that ends makes within the bounds
MaxIter == 2 * MaxDest + MaxAmount + 1

\* the surface a call targets
Target(pg) == IF Truthy(pg) THEN Get(pg, "id").s ELSE "canvas"

\* textureOverlay(textureImage, config, pg), with the globals width and
\* height in canvas and the next two values of this.#random() in r1, r2
textureOverlay(textureImage, config, pg, canvas, r1, r2) ==
    IF validateArguments("textureOverlay", <<textureImage, config, pg>>)
    THEN Throws("textureOverlay", Target(pg), <<textureImage, config, pg>>)
    ELSE IF typeof(config) = "undefined"            \* config.mode: a TypeError
    THEN Throws("textureOverlay", Target(pg), <<textureImage, config, pg>>)
    ELSE
    LET isGraphicsBuffer == instanceof(pg, "p5.Graphics")
        _width == IF isGraphicsBuffer THEN Get(pg, "width").i ELSE canvas.width
        _height == IF isGraphicsBuffer THEN Get(pg, "height").i ELSE canvas.height
        _mode == IF Truthy(Get(config, "mode")) THEN Get(config, "mode").s ELSE MULTIPLY
        _reflect == Truthy(Get(config, "reflect"))
        animate == Get(config, "animate")
        _animate == Truthy(animate)
        _animateAtFrame == IF _animate /\ Truthy(Get(animate, "atFrame"))
                           THEN round(Get(animate, "atFrame")) ELSE 2
        _animateAmount == IF _animate /\ Truthy(Get(animate, "amount"))
                          THEN round(Get(animate, "amount"))
                          ELSE min(_width, _height)
        tW == IF typeof(Get(config, "width")) = "number"
              THEN Get(config, "width").i ELSE Get(textureImage, "width").i
        tH == IF typeof(Get(config, "height")) = "number"
              THEN Get(config, "height").i ELSE Get(textureImage, "height").i
        st == animateTextureCoordinates(textureOverlayState, _animate,
                  _animateAtFrame, _animateAmount, r1, r2)
        p == [_width |-> _width, _height |-> _height, tW |-> tW, tH |-> tH,
              _reflect |-> _reflect, tX_anchor |-> st.tX_anchor, fuel |-> MaxIter]
        sweep == whileRows(p, st.tX_anchor, st.tY, TRUE, TRUE,
                           <<HostCall("blendMode", <<_mode>>)>>, MaxIter)
    IN  /\ textureOverlayState' = st
        /\ call' = [op |-> "textureOverlay", target |-> Target(pg),
                    checked |-> ~ignoreErrors,
                    args |-> <<textureImage, config, pg>>,
                    isGraphicsBuffer |-> isGraphicsBuffer,
                    _width |-> _width, _height |-> _height, _mode |-> _mode,
                    _reflect |-> _reflect, _animate |-> _animate,
                    atFrame |-> Get(animate, "atFrame"),
                    _animateAtFrame |-> _animateAtFrame,
                    _animateAmount |-> _animateAmount,
                    shifted |-> _animate /\ textureOverlayState.frameCount + 1
                                                >= _animateAtFrame,
                    tW |-> tW, tH |-> tH, iterations |-> sweep.iterations]
        /\ outcome' = IF sweep.done THEN "returned" ELSE "hang"
        /\ hostCalls' = IF sweep.done
                        THEN sweep.log \o <<HostCall("blendMode", <<BLEND>>)>>
                             \o (IF isGraphicsBuffer
                                 THEN <<HostCall("reset", <<>>)>> ELSE <<>>)
                        ELSE sweep.log
        /\ UNCHANGED <<ignoreWarnings, ignoreErrors, random,
                       textureAnimateState, style, pixels>>

\* ------------------------------------------------------------------ setup
setup(config) ==
    IF validateArguments("setup", <<config>>)
    THEN Throws("setup", "none", <<config>>)
    ELSE
    /\ random' = IF typeof(config) = "undefined" THEN "random"
                 ELSE IF typeof(config) = "object"
                         /\ typeof(Get(config, "random")) = "function"
                 THEN Get(config, "random").s ELSE random
    /\ ignoreErrors' = IF typeof(config) = "object"
                          /\ typeof(Get(config, "ignoreErrors")) = "boolean"
                       THEN Truthy(Get(config, "ignoreErrors")) ELSE ignoreErrors
    /\ ignoreWarnings' = IF typeof(config) = "object"
                            /\ typeof(Get(config, "ignoreWarnings")) = "boolean"
                         THEN Truthy(Get(config, "ignoreWarnings")) ELSE ignoreWarnings
    /\ call' = [op |-> "setup", target |-> "none", checked |-> ~ignoreErrors,
                args |-> <<config>>]
    /\ outcome' = "returned"
    /\ hostCalls' = <<>>
    /\ UNCHANGED <<textureAnimateState, textureOverlayState, style, pixels>>

\* --------------------------------------------------------- textureAnimate
\* an element of one of the three kinds textureAnimate styles
isElement(v) ==
    \/ instanceof(v, "HTMLElement")
    \/ instanceof(v, "SVGElement")
    \/ instanceof(v, "p5.Element")

\* the style of the element after the shift to (bgPosX, bgPosY)
shiftElement(textureElement, bgPosX, bgPosY) ==
    IF instanceof(textureElement, "HTMLElement")
    THEN [prop |-> "backgroundPosition", x |-> bgPosX, y |-> bgPosY]
    ELSE IF instanceof(textureElement, "SVGElement")
    THEN [prop |-> "top-left", x |-> -bgPosX, y |-> -bgPosY]
    ELSE IF instanceof(textureElement, "p5.Element")
    THEN [prop |-> "background-position", x |-> bgPosX, y |-> bgPosY]
    ELSE style

textureAnimate(textureElement, config, canvas, r1, r2) ==
    IF validateArguments("textureAnimate", <<textureElement, config>>)
    THEN Throws("textureAnimate", "element", <<textureElement, config>>)
    ELSE
    LET _atFrame == IF Truthy(config) /\ Truthy(Get(config, "atFrame"))
                    THEN round(Get(config, "atFrame")) ELSE 2
        n == textureAnimateState.frameCount + 1
        _amount == IF Truthy(config) /\ Truthy(Get(config, "amount"))
                   THEN round(Get(config, "amount"))
                   ELSE min(canvas.width, canvas.height)
        bgPosX == floorRandomTimes(r1, _amount)
        bgPosY == floorRandomTimes(r2, _amount)
        shifted == shiftElement(textureElement, bgPosX, bgPosY)
    IN  /\ textureAnimateState' = [frameCount |-> IF n >= _atFrame THEN 0 ELSE n]
        /\ style' = IF n >= _atFrame THEN shifted ELSE style
        /\ call' = [op |-> "textureAnimate", target |-> "element",
                    checked |-> ~ignoreErrors,
                    args |-> <<textureElement, config>>,
                    atFrame |-> Get(config, "atFrame"), _atFrame |-> _atFrame,
                    shifted |-> n >= _atFrame]
        /\ outcome' = "returned"
        /\ hostCalls' = IF n >= _atFrame /\ isElement(textureElement)
                        THEN <<HostCall("style", <<shifted.x, shifted.y>>)>>
                        ELSE <<>>
        /\ UNCHANGED <<ignoreWarnings, ignoreErrors, random,
                       textureOverlayState, pixels>>

\* ------------------------------------------------------------ pixel loops
\* a store into the pixel buffer (a Uint8ClampedArray): clamped to 0..255,
\* and dropped when the index is outside the buffer
store(px, i, v) ==
    IF i + 1 \in DOMAIN px
    THEN [px EXCEPT ![i + 1] = IF v < 0 THEN 0 ELSE IF v > 255 THEN 255 ELSE v]
    ELSE px
\* a read of the pixel buffer; outside it the sum read + grain is NaN and the
\* store that follows is dropped, so any number serves
load(px, i) == IF i + 1 \in DOMAIN px THEN px[i + 1] ELSE 0

\* #randomIntInclusive with one value too many in its range
randomIntInclusiveWide(lo, hi, k) == ((k * (hi - lo + 2)) \div RandDen) + lo

\* #randomIntInclusive(min, max) for the random value k / RandDen
randomIntInclusive(lo, hi, k) == ((k * (hi - lo + 1)) \div RandDen) + lo

\* the number of samples the loops visit: the globals width and height
\* with the target's pixel density
totalSamples(canvas, density) ==
    4 * (canvas.width * density) * (canvas.height * density)

\* the indexes for (let i = 0; i < total; i += 4) runs its body with, from i
RECURSIVE forIndexes(_, _)
forIndexes(i, total) ==
    IF i < total THEN <<i>> \o forIndexes(i + 4, total) ELSE <<>>

\* the for loop of granulateSimple adding the grain to alpha in every call
RECURSIVE granulateSimpleLoopAlpha(_, _, _, _, _, _)
granulateSimpleLoopAlpha(i, total, px, rs, _amount, _alpha) ==
    IF i < total
    THEN LET grainAmount == randomIntInclusive(-_amount, _amount, rs[(i \div 4) + 1])
             p1 == store(px, i, load(px, i) + grainAmount)
             p2 == store(p1, i + 1, load(p1, i + 1) + grainAmount)
             p3 == store(p2, i + 2, load(p2, i + 2) + grainAmount)
             p4 == store(p3, i + 3, load(p3, i + 3) + grainAmount)
         IN  granulateSimpleLoopAlpha(i + 4, total, p4, rs, _amount, _alpha)
    ELSE px

\* the for loop of granulateSimple from index i; rs are the values
\* this.#random() returns, one per pixel
RECURSIVE granulateSimpleLoop(_, _, _, _, _, _)
granulateSimpleLoop(i, total, px, rs, _amount, _alpha) ==
    IF i < total
    THEN LET grainAmount == randomIntInclusive(-_amount, _amount, rs[(i \div 4) + 1])
             p1 == store(px, i, load(px, i) + grainAmount)
             p2 == store(p1, i + 1, load(p1, i + 1) + grainAmount)
             p3 == store(p2, i + 2, load(p2, i + 2) + grainAmount)
             p4 == IF _alpha THEN store(p3, i + 3, load(p3, i + 3) + grainAmount)
                   ELSE p3
         IN  granulateSimpleLoop(i + 4, total, p4, rs, _amount, _alpha)
    ELSE px

\* the for loop of granulateChannels from index i; rs holds four values per
\* pixel, of which the loop draws three when _alpha is false
RECURSIVE granulateChannelsLoop(_, _, _, _, _, _)
granulateChannelsLoop(i, total, px, rs, _amount, _alpha) ==
    IF i < total
    THEN LET p1 == store(px, i, load(px, i)
                      + randomIntInclusive(-_amount, _amount, rs[i + 1]))
             p2 == store(p1, i + 1, load(p1, i + 1)
                      + randomIntInclusive(-_amount, _amount, rs[i + 2]))
             p3 == store(p2, i + 2, load(p2, i + 2)
                      + randomIntInclusive(-_amount, _amount, rs[i + 3]))
             p4 == IF _alpha
                   THEN store(p3, i + 3, load(p3, i + 3)
                            + randomIntInclusive(-_amount, _amount, rs[i + 4]))
                   ELSE p3
         IN  granulateChannelsLoop(i + 4, total, p4, rs, _amount, _alpha)
    ELSE px

\* the calls callback(i, total) of tinkerPixels from index i
RECURSIVE tinkerPixelsLoop(_, _)
tinkerPixelsLoop(i, total) ==
    IF i < total
    THEN <<HostCall("callback", <<i, total>>)>> \o tinkerPixelsLoop(i + 4, total)
    ELSE <<>>

\* the pixel density of the target
Density(pg, canvas) == IF Truthy(pg) THEN Get(pg, "density").i ELSE canvas.density

\* granulateSimple(amount, alpha, pg); loaded is the target's buffer as
\* loadPixels() fills it
granulateSimple(amount, alpha, pg, canvas, loaded, rs) ==
    IF validateArguments("granulateSimple", <<amount, alpha, pg>>)
    THEN Throws("granulateSimple", Target(pg), <<amount, alpha, pg>>)
    ELSE
    LET _amount == round(amount)
        _alpha == Truthy(alpha)
        total == totalSamples(canvas, Density(pg, canvas))
    IN  /\ pixels' = granulateSimpleLoop(0, total, loaded, rs, _amount, _alpha)
        /\ call' = [op |-> "granulateSimple", target |-> Target(pg),
                    checked |-> ~ignoreErrors,
                    args |-> <<amount, alpha, pg>>, _amount |-> _amount,
                    _alpha |-> _alpha, total |-> total, loaded |-> loaded,
                    visited |-> forIndexes(0, total), rs |-> rs]
        /\ outcome' = "returned"
        /\ hostCalls' = <<HostCall("loadPixels", <<>>), HostCall("updatePixels", <<>>)>>
        /\ UNCHANGED <<p5grain, style>>

granulateChannels(amount, alpha, pg, canvas, loaded, rs) ==
    IF validateArguments("granulateChannels", <<amount, alpha, pg>>)
    THEN Throws("granulateChannels", Target(pg), <<amount, alpha, pg>>)
    ELSE
    LET _amount == round(amount)
        _alpha == Truthy(alpha)
        total == totalSamples(canvas, Density(pg, canvas))
    IN  /\ pixels' = granulateChannelsLoop(0, total, loaded, rs, _amount, _alpha)
        /\ call' = [op |-> "granulateChannels", target |-> Target(pg),
                    checked |-> ~ignoreErrors,
                    args |-> <<amount, alpha, pg>>, _amount |-> _amount,
                    _alpha |-> _alpha, total |-> total, loaded |-> loaded,
                    visited |-> forIndexes(0, total), rs |-> rs]
        /\ outcome' = "returned"
        /\ hostCalls' = <<HostCall("loadPixels", <<>>), HostCall("updatePixels", <<>>)>>
        /\ UNCHANGED <<p5grain, style>>

\* tinkerPixels(callback, pg) with a callback that leaves the buffer alone
tinkerPixels(callback, pg, canvas, loaded) ==
    IF validateArguments("tinkerPixels", <<callback, pg>>)
    THEN Throws("tinkerPixels", Target(pg), <<callback, pg>>)
    ELSE
    LET total == totalSamples(canvas, Density(pg, canvas))
    IN  /\ pixels' = loaded
        /\ call' = [op |-> "tinkerPixels", target |-> Target(pg),
                    checked |-> ~ignoreErrors,
                    args |-> <<callback, pg>>, total |-> total, loaded |-> loaded,
                    visited |-> forIndexes(0, total)]
        /\ outcome' = "returned"
        /\ hostCalls' = <<HostCall("loadPixels", <<>>)>> \o tinkerPixelsLoop(0, total)
                        \o <<HostCall("updatePixels", <<>>)>>
        /\ UNCHANGED <<p5grain, style>>

\* ------------------------------------------------------------ the caller
\* the caller has control again (the call returned, or it threw and the
\* caller caught it): the record of the call is dropped
Return ==
    /\ outcome \in {"returned", "threw"}
    /\ call' = [op |-> "none"]
    /\ outcome' = "none"
    /\ hostCalls' = <<>>
    /\ UNCHANGED <<p5grain, style, pixels>>

\* the values a caller passes
Image(w, h) ==
    [t |-> "object", i |-> 0, f |-> 0, s |-> "p5.Image",
     width |-> Whole(w), height |-> Whole(h)]
Graphics(id, w, h, d) ==
    [t |-> "object", i |-> 0, f |-> 0, s |-> "p5.Graphics", id |-> Str(id),
     width |-> Whole(w), height |-> Whole(h), density |-> Whole(d)]
Canvas(w, h, d) == [width |-> w, height |-> h, density |-> d]
Animate(atFrame, amount) ==
    [t |-> "object", i |-> 0, f |-> 0, s |-> "Object",
     atFrame |-> atFrame, amount |-> amount]
OverlayConfig(w, h, mode, reflect, animate) ==
    [t |-> "object", i |-> 0, f |-> 0, s |-> "Object", width |-> w,
     height |-> h, mode |-> mode, reflect |-> reflect, animate |-> animate]
SetupConfig(rnd, errors, warnings) ==
    [t |-> "object", i |-> 0, f |-> 0, s |-> "Object", random |-> rnd,
     ignoreErrors |-> errors, ignoreWarnings |-> warnings]

DestSizes == 0..MaxDest
TileSizes == 0..MaxTile
Rand == 0..(RandDen - 1)

\* a destination: the default canvas, or an offscreen buffer (the canvas
\* is then 1 x 1)
Destinations ==
    {<<Undefined, Canvas(w, h, 1)>> : w \in DestSizes, h \in DestSizes}
    \cup {<<Graphics("pg1", w, h, 1), Canvas(1, 1, 1)>> :
              w \in DestSizes, h \in DestSizes}

\* calls <<textureImage, config, pg, canvas, r1, r2>> of textureOverlay:
\* every tile size on every destination, tiled plainly and reflected
TilingCalls ==
    {<<Image(w, h), OverlayConfig(Undefined, Undefined, Undefined, reflect, Undefined),
       d[1], d[2], 0, 0>> :
        w \in TileSizes, h \in TileSizes, reflect \in {Undefined, Bool(TRUE)},
        d \in Destinations}
    \cup {<<Image(1, 1), OverlayConfig(Whole(w), Whole(h), Str("screen"), Bool(FALSE), Bool(FALSE)),
            Undefined, Canvas(MaxDest, MaxDest, 1), 0, 0>> :
              w \in TileSizes, h \in TileSizes}

\* animated calls, which shift the anchor
Amounts == {Undefined, Whole(MaxAmount), Whole(-MaxAmount)}
AnimatedCalls ==
    {<<Image(1, 1), OverlayConfig(Undefined, Undefined, Undefined, Undefined, a),
       Undefined, Canvas(w, w, 1), r1, r2>> :
        a \in {Bool(TRUE)} \cup {Animate(af, am) : af \in {Undefined, Whole(1)},
                                                  am \in Amounts},
        w \in {1, MaxDest}, r1 \in Rand, r2 \in Rand}

\* calls the validation refuses, and one that passes it and throws
RefusedOverlayCalls ==
    {<<Undefined, OverlayConfig(Undefined, Undefined, Undefined, Undefined, Bool(TRUE)),
       Undefined, Canvas(1, 1, 1), 0, 0>>,
     <<Image(1, 1), Whole(1), Undefined, Canvas(1, 1, 1), 0, 0>>,
     <<Image(1, 1), OverlayConfig(Str("1"), Undefined, Undefined, Undefined, Bool(TRUE)),
       Undefined, Canvas(1, 1, 1), 0, 0>>,
     <<Image(1, 1), OverlayConfig(Undefined, Undefined, Whole(1), Undefined, Bool(TRUE)),
       Undefined, Canvas(1, 1, 1), 0, 0>>,
     <<Image(1, 1), OverlayConfig(Undefined, Undefined, Undefined, Str("yes"), Bool(TRUE)),
       Undefined, Canvas(1, 1, 1), 0, 0>>,
     <<Image(1, 1), OverlayConfig(Undefined, Undefined, Undefined, Undefined, Bool(TRUE)),
       Obj("Object"), Canvas(1, 1, 1), 0, 0>>,
     <<Image(1, 1), Undefined, Undefined, Canvas(1, 1, 1), 0, 0>>}

\* unchecked calls are made with well-typed arguments only
Checked(calls) == IF ignoreErrors THEN {} ELSE calls

SetupConfigs ==
    {SetupConfig(Undefined, e, Undefined) : e \in {Bool(TRUE), Bool(FALSE), Whole(1)}}

Next ==
    \/ /\ outcome = "none"
       /\ \E c \in TilingCalls \cup AnimatedCalls \cup Checked(RefusedOverlayCalls) :
              textureOverlay(c[1], c[2], c[3], c[4], c[5], c[6])
       /\ UNCHANGED history
    \/ /\ outcome = "none"
       /\ \E config \in SetupConfigs : setup(config)
       /\ UNCHANGED history
    \/ Return /\ UNCHANGED history

\* every destination and tile size, with the anchors animation leaves
Spec == Init /\ [][Next]_vars

\* ------------------------------------------------- the animation cadence
\* atFrame values: absent, 0, 1, and two fractions that round down and up
AtFrames ==
    {Undefined, Whole(0), Whole(1), Num(MaxAtFrame, 1), Num(MaxAtFrame, FracDen - 1)}

\* textureOverlay on a 2 x 2 canvas: animated with each atFrame, and plain
CadenceOverlayCalls ==
    {<<Image(1, 1), OverlayConfig(Undefined, Undefined, Undefined, Undefined, a),
       Undefined, Canvas(2, 2, 1), r1, r2>> :
        a \in {Undefined, Bool(TRUE)} \cup {Animate(af, Undefined) : af \in AtFrames},
        r1 \in Rand, r2 \in {0, RandDen - 1}}
\* <<textureElement, config, canvas, r1, r2>> of textureAnimate
CadenceAnimateCalls ==
    {<<Obj(cls), c, Canvas(2, 2, 1), r1, 0>> :
        cls \in {"HTMLElement", "SVGElement", "p5.Element"},
        c \in {Undefined} \cup {Animate(af, Whole(MaxAmount)) : af \in AtFrames},
        r1 \in Rand}
RefusedAnimateCalls ==
    {<<Obj("Object"), Undefined, Canvas(2, 2, 1), 0, 0>>,
     <<Obj("HTMLElement"), Whole(1), Canvas(2, 2, 1), 0, 0>>,
     <<Obj("HTMLElement"), Animate(Str("2"), Undefined), Canvas(2, 2, 1), 0, 0>>,
     <<Obj("HTMLElement"), Animate(Undefined, Str("2")), Canvas(2, 2, 1), 0, 0>>}

NextAnimation ==
    \/ /\ outcome = "none"
       /\ \E c \in CadenceOverlayCalls :
              textureOverlay(c[1], c[2], c[3], c[4], c[5], c[6])
       /\ UNCHANGED history
    \/ /\ outcome = "none"
       /\ \E c \in CadenceAnimateCalls \cup RefusedAnimateCalls :
              textureAnimate(c[1], c[2], c[3], c[4], c[5])
       /\ UNCHANGED history
    \/ Return /\ UNCHANGED history

\* both animations, each call with an atFrame of its own
SpecAnimation == Init /\ [][NextAnimation]_vars

\* ------------------------------------- one atFrame, calls counted by target
\* the frame counts of a cadence: absent (2), 1, and one above the default
FixedAtFrames == {Undefined, Whole(1), Whole(MaxAtFrame + 1)}

\* animated textureOverlay on the canvas and on an offscreen buffer
FixedOverlayCalls ==
    {<<Image(1, 1), OverlayConfig(Undefined, Undefined, Undefined, Undefined, a),
       d[1], d[2], r, RandDen - 1 - r>> :
        a \in {Animate(af, Undefined) : af \in FixedAtFrames},
        d \in {<<Undefined, Canvas(2, 2, 1)>>,
               <<Graphics("pg1", 2, 2, 1), Canvas(2, 2, 1)>>},
        r \in {0, RandDen - 1}}
\* textureOverlay without animation
PlainOverlayCalls ==
    {<<Image(1, 1), OverlayConfig(Undefined, Undefined, Undefined, Undefined, Undefined),
       Undefined, Canvas(2, 2, 1), 0, 0>>}
FixedAnimateCalls ==
    {<<Obj(cls), Animate(af, Whole(MaxAmount)), Canvas(2, 2, 1), r, r>> :
        cls \in {"HTMLElement", "SVGElement"}, af \in FixedAtFrames,
        r \in {RandDen - 1}}

\* the calls made so far that ran their animation step
CallsMade == history.calls.canvas + history.calls.pg1 + history.calls.element

\* the call keeps the atFrame of the earlier calls of its operation
SameAtFrame(op, atFrame) ==
    history.atFrame[op] \in {<<>>, <<atFrame>>}

\* history after the call just made: an animation step is counted for its
\* target, a call that threw or did not animate is not
Recorded ==
    IF outcome' = "returned" /\ call'.op = "textureAnimate"
    THEN [history EXCEPT !.atFrame.textureAnimate = <<call'.atFrame>>,
                         !.calls.element = @ + 1]
    ELSE IF outcome' = "returned" /\ call'.op = "textureOverlay" /\ call'._animate
    THEN [history EXCEPT !.atFrame.textureOverlay = <<call'.atFrame>>,
                         !.calls[call'.target] = @ + 1]
    ELSE history

NextCadence ==
    \/ /\ outcome = "none" /\ CallsMade < MaxCalls
       /\ \E c \in FixedOverlayCalls :
              /\ SameAtFrame("textureOverlay", Get(Get(c[2], "animate"), "atFrame"))
              /\ textureOverlay(c[1], c[2], c[3], c[4], c[5], c[6])
       /\ history' = Recorded
    \/ /\ outcome = "none"
       /\ \E c \in PlainOverlayCalls \cup RefusedOverlayCalls :
              textureOverlay(c[1], c[2], c[3], c[4], c[5], c[6])
       /\ history' = Recorded
    \/ /\ outcome = "none" /\ CallsMade < MaxCalls
       /\ \E c \in FixedAnimateCalls :
              /\ SameAtFrame("textureAnimate", Get(c[2], "atFrame"))
              /\ textureAnimate(c[1], c[2], c[3], c[4], c[5])
       /\ history' = Recorded
    \/ /\ outcome = "none"
       /\ \E c \in RefusedAnimateCalls :
              textureAnimate(c[1], c[2], c[3], c[4], c[5])
       /\ history' = Recorded
    \/ Return /\ UNCHANGED history

\* sequences of calls with one atFrame per operation, on a fresh instance
SpecCadence == Init /\ [][NextCadence]_vars

\* ------------------------------------------------- all six operations
\* setup with a random source of its own, with either flag, and refused
AllSetupConfigs ==
    {Undefined, Str("fast"), SetupConfig(Whole(1), Undefined, Undefined),
     SetupConfig(Undefined, Undefined, Str("yes")),
     SetupConfig(Fn("myRandom"), Undefined, Bool(TRUE))}
    \cup SetupConfigs

\* the buffer loadPixels() fills for a 1 x 1 target of density 1
Loaded == {<<100, 100, 100, 100>>, <<0, 255, 0, 255>>}

\* <<amount, alpha, pg, canvas, loaded, rs>> of the granulate operations
GranulateCalls ==
    {<<Whole(1), alpha, pg, Canvas(1, 1, 1), loaded, <<r, RandDen - 1 - r, r, r>> >> :
        alpha \in {Undefined, Bool(TRUE)},
        pg \in {Undefined, Graphics("pg1", 1, 1, 1)},
        loaded \in Loaded, r \in {0, RandDen - 1}}
RefusedGranulateCalls ==
    {<<a[1], a[2], a[3], Canvas(1, 1, 1), <<100, 100, 100, 100>>, <<0, 0, 0, 0>> >> :
        a \in {<<Undefined, Undefined, Undefined>>,
               <<Str("1"), Bool(TRUE), Undefined>>,
               <<Whole(1), Whole(1), Undefined>>,
               <<Whole(1), Undefined, Obj("Object")>>}}

\* <<callback, pg, canvas, loaded>> of tinkerPixels
TinkerCalls ==
    {<<Fn("callback"), pg, Canvas(1, 1, 1), loaded>> :
        pg \in {Undefined, Graphics("pg1", 1, 1, 1)}, loaded \in Loaded}
RefusedTinkerCalls ==
    {<<Undefined, Undefined, Canvas(1, 1, 1), <<100, 100, 100, 100>> >>,
     <<Str("callback"), Undefined, Canvas(1, 1, 1), <<100, 100, 100, 100>> >>,
     <<Fn("callback"), Obj("Object"), Canvas(1, 1, 1), <<100, 100, 100, 100>> >>}

AllOverlayCalls ==
    {<<Image(1, 1), OverlayConfig(Undefined, Undefined, Undefined, Undefined, Bool(TRUE)),
       pg, Canvas(2, 2, 1), RandDen - 1, RandDen - 1>> :
        pg \in {Undefined, Graphics("pg1", 2, 2, 1)}}
AllAnimateCalls ==
    {<<Obj(cls), Undefined, Canvas(2, 2, 1), RandDen - 1, RandDen - 1>> :
        cls \in {"HTMLElement", "p5.Element"}}

NextAll ==
    \/ /\ outcome = "none"
       /\ \E config \in AllSetupConfigs : setup(config)
       /\ UNCHANGED history
    \/ /\ outcome = "none"
       /\ \E c \in GranulateCalls \cup Checked(RefusedGranulateCalls) :
              granulateSimple(c[1], c[2], c[3], c[4], c[5], c[6])
       /\ UNCHANGED history
    \/ /\ outcome = "none"
       /\ \E c \in GranulateCalls \cup Checked(RefusedGranulateCalls) :
              granulateChannels(c[1], c[2], c[3], c[4], c[5], c[6])
       /\ UNCHANGED history
    \/ /\ outcome = "none"
       /\ \E c \in TinkerCalls \cup Checked(RefusedTinkerCalls) :
              tinkerPixels(c[1], c[2], c[3], c[4])
       /\ UNCHANGED history
    \/ /\ outcome = "none"
       /\ \E c \in AllAnimateCalls \cup Checked(RefusedAnimateCalls) :
              textureAnimate(c[1], c[2], c[3], c[4], c[5])
       /\ UNCHANGED history
    \/ /\ outcome = "none"
       /\ \E c \in AllOverlayCalls \cup PlainOverlayCalls
                       \cup Checked(RefusedOverlayCalls) :
              textureOverlay(c[1], c[2], c[3], c[4], c[5], c[6])
       /\ UNCHANGED history
    \/ Return /\ UNCHANGED history

\* the six public operations, each with arguments it accepts and refuses
SpecAll == Init /\ [][NextAll]_vars

\* ------------------------------------------- pixel buffers of every size
\* the sides of a surface, in pixels
Sides == 1..MaxSide

\* the length of the buffer loadPixels() fills: four samples for each of
\* (width * density) * (height * density) pixels of the target
BufferLength(pg, canvas) ==
    IF Truthy(pg)
    THEN 4 * (Get(pg, "width").i * Get(pg, "density").i)
           * (Get(pg, "height").i * Get(pg, "density").i)
    ELSE 4 * (canvas.width * canvas.density) * (canvas.height * canvas.density)

\* a buffer of n samples, all v
Buffer(n, v) == [j \in 1..n |-> v]

\* <<pg, canvas>>: the canvas alone, and an offscreen buffer of any size
\* beside a canvas of any size
Surfaces ==
    {<<Undefined, Canvas(w, h, 1)>> : w \in Sides, h \in Sides}
    \cup {<<Undefined, Canvas(1, 1, 2)>>}
    \cup {<<Graphics("pg1", w, h, 1), Canvas(cw, ch, 1)>> :
              w \in Sides, h \in Sides, cw \in Sides, ch \in Sides}
    \cup {<<Graphics("pg1", 1, 1, 2), Canvas(1, 1, 1)>>}

\* <<amount, alpha, pg, canvas, loaded, rs>>: amount 1 with random() = 0
\* everywhere, which takes 1 from every sample it reaches
SizedGranulateCalls ==
    {<<Whole(1), alpha, t[1], t[2], Buffer(BufferLength(t[1], t[2]), v),
       Buffer(totalSamples(t[2], Density(t[1], t[2])), 0)>> :
        alpha \in {Undefined, Bool(TRUE)}, t \in Surfaces, v \in {100, 200}}
SizedTinkerCalls ==
    {<<Fn("callback"), t[1], t[2], Buffer(BufferLength(t[1], t[2]), v)>> :
        t \in Surfaces, v \in {100, 200}}

NextPixels ==
    \/ /\ outcome = "none"
       /\ \E c \in SizedGranulateCalls :
              granulateSimple(c[1], c[2], c[3], c[4], c[5], c[6])
       /\ UNCHANGED history
    \/ /\ outcome = "none"
       /\ \E c \in SizedGranulateCalls :
              granulateChannels(c[1], c[2], c[3], c[4], c[5], c[6])
       /\ UNCHANGED history
    \/ /\ outcome = "none"
       /\ \E c \in SizedTinkerCalls : tinkerPixels(c[1], c[2], c[3], c[4])
       /\ UNCHANGED history
    \/ Return /\ UNCHANGED history

\* the three pixel operations on the canvas and on offscreen buffers
SpecPixels == Init /\ [][NextPixels]_vars

\* ------------------------------------------------ grain of every amount
\* the integer amounts, negative ones included
GrainAmounts == {Whole(a) : a \in (-MaxAmount)..MaxAmount}

\* one pixel as loadPixels() gives it: grey, with alpha in the middle of the
\* range and at either end of it
LoadedPixels == {<<100, 100, 100, a>> : a \in {100, 255, 0}}

\* the values random() returns for one pixel, four of them: one value
\* repeated, and every value followed by the next ones
PixelRandoms ==
    {<<k, k, k, k>> : k \in Rand}
    \cup {<<k, (k + 1) % RandDen, (k + 2) % RandDen, (k + 3) % RandDen>> : k \in Rand}

\* granulateSimple on a canvas of two pixels: one random() value per pixel
GrainSimpleCalls ==
    {<<amount, alpha, Undefined, Canvas(2, 1, 1), px \o <<100, 100, 100, 100>>, <<k1, k2>> >> :
        amount \in GrainAmounts, alpha \in {Undefined, Bool(FALSE), Bool(TRUE)},
        px \in LoadedPixels, k1 \in Rand, k2 \in Rand}
\* granulateChannels on a canvas and on an offscreen buffer of one pixel
GrainChannelsCalls ==
    {<<amount, alpha, pg, Canvas(1, 1, 1), px, rs>> :
        amount \in GrainAmounts, alpha \in {Undefined, Bool(FALSE), Bool(TRUE)},
        pg \in {Undefined, Graphics("pg1", 1, 1, 1)},
        px \in LoadedPixels, rs \in PixelRandoms}

NextGrain ==
    \/ /\ outcome = "none"
       /\ \E c \in GrainSimpleCalls :
              granulateSimple(c[1], c[2], c[3], c[4], c[5], c[6])
       /\ UNCHANGED history
    \/ /\ outcome = "none"
       /\ \E c \in GrainChannelsCalls :
              granulateChannels(c[1], c[2], c[3], c[4], c[5], c[6])
       /\ UNCHANGED history
    \/ Return /\ UNCHANGED history

\* the two grain operations with every amount and every random value
SpecGrain == Init /\ [][NextGrain]_vars

\* ================================================================ claims
\* a textureOverlay call that got past its first lines
Swept == call.op = "textureOverlay" /\ outcome \in {"returned", "hang"}

\* the tile an image call draws, in the coordinates of the destination: a
\* scale(sx, sy) before it mirrors the axes, so image(-x, y, -w, h) under
\* scale(-1, 1) covers x .. x + w
Tile(log, j) ==
    LET sx == IF j > 1 /\ log[j - 1].f = "scale" THEN log[j - 1].a[1] ELSE 1
        sy == IF j > 1 /\ log[j - 1].f = "scale" THEN log[j - 1].a[2] ELSE 1
    IN  [x |-> sx * log[j].a[1], y |-> sy * log[j].a[2],
         w |-> sx * log[j].a[3], h |-> sy * log[j].a[4], sx |-> sx, sy |-> sy]
Tiles == {Tile(hostCalls, j) : j \in {k \in 1..Len(hostCalls) : hostCalls[k].f = "image"}}
IsImage(e) == e.f = "image"
Draws == SelectSeq(hostCalls, IsImage)
anchorX == textureOverlayState.tX_anchor
anchorY == textureOverlayState.tY

\* C1: a checked textureOverlay call with a resolved tile width or height of
\* 0 raises an error before any tile is drawn: a checked call that got past
\* validation has a tile width and a tile height other than 0
C1_ZeroTileRaises ==
    (Swept /\ call.checked) => (call.tW # 0 /\ call.tH # 0)

\* C2: when a call with tile width and height > 0 has finished its sweep,
\* every cell of the destination lies in a drawn tile
C2_NoGaps ==
    (Swept /\ outcome = "returned" /\ call.tW > 0 /\ call.tH > 0) =>
        \A x \in 0..(call._width - 1), y \in 0..(call._height - 1) :
            \E t \in Tiles : /\ t.x <= x /\ x + 1 <= t.x + t.w
                              /\ t.y <= y /\ y + 1 <= t.y + t.h

\* the mirroring of the tile in column col and row row, counted from the anchor
Mirror(n) == IF n % 2 = 0 THEN 1 ELSE -1

\* C3: with reflect, the orientation of each tile follows the parity of its
\* row and its column counted from the anchor, so horizontal neighbours
\* differ by a horizontal mirror and vertical neighbours by a vertical one
C3_ReflectOrientation ==
    (Swept /\ call._reflect /\ call.tW > 0 /\ call.tH > 0) =>
        /\ \A t \in Tiles :
              /\ t.sx = Mirror((t.x - anchorX) \div call.tW)
              /\ t.sy = Mirror((t.y - anchorY) \div call.tH)
        /\ \A t, u \in Tiles :
              /\ (u.y = t.y /\ u.x = t.x + call.tW) => (u.sx = -t.sx /\ u.sy = t.sy)
              /\ (u.x = t.x /\ u.y = t.y + call.tH) => (u.sy = -t.sy /\ u.sx = t.sx)

\* a reflected sweep from a shifted anchor that drew all four orientations
C3_Witness ==
    /\ Swept /\ outcome = "returned" /\ call._reflect
    /\ anchorX < 0 /\ anchorY < 0
    /\ {<<t.sx, t.sy>> : t \in Tiles} = {<<1, 1>>, <<-1, 1>>, <<1, -1>>, <<-1, -1>>}
    /\ \E t \in Tiles : t.x = anchorX + 2 * call.tW /\ t.y = anchorY + 2 * call.tH

\* the draws the claim lists: row j before row j + 1, columns left to right
ExpectedDraws(aX, aY, tW, tH, destWidth, destHeight) ==
    LET cols == Cardinality({i \in 0..(destWidth + MaxIter) : aX + i * tW < destWidth})
        rows == Cardinality({j \in 0..(destHeight + MaxIter) : aY + j * tH < destHeight})
    IN  [k \in 1..(rows * cols) |->
            HostCall("image", <<aX + ((k - 1) % cols) * tW,
                               aY + ((k - 1) \div cols) * tH, tW, tH>>)]

\* C4: without reflect and with a tile size > 0, a call issues exactly the
\* draws at (aX + i*tW, aY + j*tH) inside the destination, once each, in
\* row-major order, and then stops
C4_RowMajorDraws ==
    (Swept /\ ~call._reflect /\ call.tW > 0 /\ call.tH > 0) =>
        /\ outcome = "returned"
        /\ Draws = ExpectedDraws(anchorX, anchorY, call.tW, call.tH,
                                 call._width, call._height)

\* C6: the stored anchor is never positive
C6_AnchorNotPositive == anchorX <= 0 /\ anchorY <= 0

\* C8: on a destination of width 0 or height 0 a call with a tile size > 0
\* makes no iteration of the sweep, draws nothing and returns
C8_EmptyDestination ==
    (Swept /\ call.tW > 0 /\ call.tH > 0
           /\ (call._width = 0 \/ call._height = 0)) =>
        /\ outcome = "returned"
        /\ call.iterations = 0
        /\ Draws = <<>>

\* n >= v, for a counter n and a number v
AtLeast(n, v) == n * FracDen >= v.i * FracDen + v.f

\* the atFrame a call is configured with: 2 when none is given
Configured(atFrame) == IF typeof(atFrame) = "number" THEN atFrame ELSE Whole(2)

\* the integer nearest to a number, the upper one of two
Nearest(v) ==
    CHOOSE m \in {v.i, v.i + 1} :
        /\ 2 * (m * FracDen - (v.i * FracDen + v.f)) <= FracDen
        /\ 2 * ((v.i * FracDen + v.f) - m * FracDen) < FracDen

\* the threshold the code uses: atFrame rounded, 2 when it is absent or 0
Threshold(atFrame) ==
    IF typeof(atFrame) = "number" /\ (atFrame.i # 0 \/ atFrame.f # 0)
    THEN Nearest(atFrame) ELSE 2

\* C5 as claimed: the anchor, and the element's offset, change only in a call
\* of their operation whose frame counter, incremented, is >= the atFrame
\* configured for that call
C5_ChangesOnlyAtConfiguredFrame ==
    [][/\ <<anchorX, anchorY>>' # <<anchorX, anchorY>> =>
            /\ call'.op = "textureOverlay" /\ call'._animate
            /\ AtLeast(textureOverlayState.frameCount + 1, Configured(call'.atFrame))
       /\ style' # style =>
            /\ call'.op = "textureAnimate"
            /\ AtLeast(textureAnimateState.frameCount + 1, Configured(call'.atFrame))
      ]_vars

\* C5 as amended: the anchor, and the element's offset, change only in a call
\* of their operation whose frame counter, incremented, is >= that call's
\* atFrame rounded to the nearest integer (2 when atFrame is absent or 0)
C5_ChangesOnlyAtRoundedFrame ==
    [][/\ <<anchorX, anchorY>>' # <<anchorX, anchorY>> =>
            /\ call'.op = "textureOverlay" /\ call'._animate
            /\ textureOverlayState.frameCount + 1 >= Threshold(call'.atFrame)
       /\ style' # style =>
            /\ call'.op = "textureAnimate"
            /\ textureAnimateState.frameCount + 1 >= Threshold(call'.atFrame)
      ]_vars

\* a call with a fractional atFrame has just moved the anchor, after calls
\* that left it alone
C5_Witness ==
    /\ call.op = "textureOverlay" /\ outcome = "returned"
    /\ call.shifted /\ call.atFrame.f # 0 /\ call._animateAtFrame > 2
    /\ anchorX < 0
    /\ style.prop = "top-left" /\ style.x < 0

\* the n of a cadence: the fixed atFrame, 2 when it is not specified
N(op) ==
    IF history.atFrame[op] # <<>> /\ typeof(history.atFrame[op][1]) = "number"
    THEN history.atFrame[op][1].i ELSE 2

\* the animated textureOverlay calls made so far, on any surface
OverlayCalls == history.calls.canvas + history.calls.pg1

\* C7: with a fixed atFrame n >= 1 on a fresh instance, the frame counter
\* after the k-th animated textureOverlay call (resp. textureAnimate call) is
\* k mod n, the k-th call redraws the offset exactly when k is a multiple of
\* n, and a call that leaves the counter at 0 has redrawn the offset; n is 2
\* when atFrame is not specified
C7_Cadence ==
    /\ textureOverlayState.frameCount = OverlayCalls % N("textureOverlay")
    /\ textureAnimateState.frameCount = history.calls.element % N("textureAnimate")
    /\ (outcome = "returned" /\ call.op = "textureOverlay" /\ call._animate) =>
          /\ call.shifted <=> OverlayCalls % N("textureOverlay") = 0
          /\ textureOverlayState.frameCount = 0 => call.shifted
    /\ (outcome = "returned" /\ call.op = "textureAnimate") =>
          /\ call.shifted <=> history.calls.element % N("textureAnimate") = 0
          /\ call.shifted <=> hostCalls # <<>>
          /\ textureAnimateState.frameCount = 0 => call.shifted

\* the last of MaxAtFrame + 1 calls with atFrame MaxAtFrame + 1 has redrawn
\* the anchor, and the second of two textureAnimate calls with no atFrame
\* has shifted the element
C7_Witness ==
    /\ outcome = "returned" /\ call.op = "textureOverlay" /\ call.shifted
    /\ N("textureOverlay") = MaxAtFrame + 1 /\ OverlayCalls = MaxAtFrame + 1
    /\ anchorX < 0
    /\ history.calls.element = 2 /\ N("textureAnimate") = 2
    /\ history.atFrame.textureAnimate = <<Undefined>>
    /\ style.x > 0

C10_StatePerSurface ==
    (outcome = "returned" /\ call.op = "textureOverlay" /\ call._animate) =>
        (call.shifted <=> history.calls[call.target] % N("textureOverlay") = 0)

\* a pixel operation has returned
PixelsDone ==
    /\ outcome = "returned"
    /\ call.op \in {"granulateSimple", "granulateChannels", "tinkerPixels"}

\* the pixel indexes 0, 4, 8, ... of a buffer of n samples
RECURSIVE PixelIndexes(_, _)
PixelIndexes(i, n) == IF i < n THEN <<i>> \o PixelIndexes(i + 4, n) ELSE <<>>

IsLoad(e) == e.f = "loadPixels"
IsCommit(e) == e.f = "updatePixels"
IsCallback(e) == e.f = "callback"

\* C11: a call of tinkerPixels, granulateSimple or granulateChannels does
\* one load (first) and one commit (last) and in between visits the pixel
\* indexes 0, 4, 8, ... of the target surface's buffer, each once, in
\* increasing order, and no other; a granulate call changes the colour
\* samples of every pixel of that buffer, and tinkerPixels calls
\* callback(i, total) for those indexes with total the buffer's length
C11_VisitsTargetBuffer ==
    PixelsDone =>
        /\ Len(SelectSeq(hostCalls, IsLoad)) = 1 /\ IsLoad(hostCalls[1])
        /\ Len(SelectSeq(hostCalls, IsCommit)) = 1
        /\ IsCommit(hostCalls[Len(hostCalls)])
        /\ call.visited = PixelIndexes(0, Len(call.loaded))
        /\ call.op = "tinkerPixels" =>
              SelectSeq(hostCalls, IsCallback)
                  = [j \in 1..(Len(call.loaded) \div 4) |->
                        HostCall("callback", <<4 * (j - 1), Len(call.loaded)>>)]
        /\ (call.op # "tinkerPixels" /\ call._amount = 1) =>
              \A j \in 1..Len(call.loaded) :
                  j % 4 # 0 => pixels[j] # call.loaded[j]

\* a grain operation has returned
GrainDone ==
    outcome = "returned" /\ call.op \in {"granulateSimple", "granulateChannels"}

\* the alpha samples of a buffer of n samples
AlphaSamples(n) == {j \in 1..n : j % 4 = 0}

\* what the buffer keeps of a value stored in it
Clamped(v) == IF v < 0 THEN 0 ELSE IF v > 255 THEN 255 ELSE v

\* floor(r * (2 amount + 1)) - amount, for r = k / RandDen
Grain(amount, k) == ((k * (2 * amount + 1)) \div RandDen) - amount

\* the random value the call drew for sample j (1-based) of the buffer
DrawnFor(j) ==
    IF call.op = "granulateSimple" THEN call.rs[((j - 1) \div 4) + 1] ELSE call.rs[j]

Abs(n) == IF n < 0 THEN -n ELSE n

\* the samples of the loaded buffer that no grain can push past 0 or 255,
\* so that what the call added is the difference it left
Unsaturated == {j \in 1..Len(call.loaded) :
                   call.loaded[j] \in MaxAmount..(255 - MaxAmount)}

\* what the call added to sample j
Added(j) == pixels[j] - call.loaded[j]

\* C13: for every integer amount, negative ones included, and every random
\* value, granulateSimple adds to the R, G and B samples of a pixel (and to
\* A when alpha is true) one and the same integer between -|amount| and
\* +|amount|, and granulateChannels adds to each sample (A only when alpha
\* is true) an integer of its own from that range
C13_GrainInRange ==
    GrainDone =>
        \A j \in Unsaturated :
            /\ Added(j) \in (-Abs(call._amount))..Abs(call._amount)
            /\ (j % 4 = 0 /\ ~call._alpha) => Added(j) = 0
            /\ (call.op = "granulateSimple" /\ (j % 4 # 0 \/ call._alpha)) =>
                  Added(j) = Added(j - ((j - 1) % 4))

\* granulateChannels with a negative amount and alpha true has added four
\* different grains to the four samples of a pixel
C13_Witness ==
    /\ GrainDone /\ call.op = "granulateChannels" /\ call._alpha
    /\ call._amount < 0
    /\ Unsaturated = 1..4
    /\ Cardinality({Added(j) : j \in 1..4}) = 4
    /\ \E j \in 1..4 : Added(j) = Abs(call._amount)

IsBlendMode(e) == e.f = "blendMode"
IsReset(e) == e.f = "reset"

\* the positions of the host calls that satisfy Test(_)
Positions(Test(_)) == {j \in 1..Len(hostCalls) : Test(hostCalls[j])}

\* the blend mode a call asks for: config.mode, MULTIPLY when it is absent
AskedMode ==
    IF typeof(Get(call.args[2], "mode")) = "string" /\ Get(call.args[2], "mode").s # ""
    THEN Get(call.args[2], "mode").s ELSE "multiply"

\* C14: a textureOverlay call that returns has called, on its target,
\* blendMode(the mode asked for, MULTIPLY by default) first, then drawn its
\* tiles, then called blendMode(normal), and after that reset() when the
\* target is an offscreen buffer and nothing when it is the canvas; there
\* are two blendMode calls, the last of them sets the normal mode, and every
\* tile is drawn between them
C14_BlendModeAroundDraws ==
    (outcome = "returned" /\ call.op = "textureOverlay") =>
        LET n == Len(hostCalls)
            last == IF call.target = "canvas" THEN n ELSE n - 1
        IN  /\ Positions(IsBlendMode) = {1, last} /\ 1 < last
            /\ hostCalls[1] = HostCall("blendMode", <<AskedMode>>)
            /\ hostCalls[last] = HostCall("blendMode", <<"source-over">>)
            /\ Positions(IsReset) = IF call.target = "canvas" THEN {} ELSE {n}
            /\ \A j \in Positions(IsImage) : 1 < j /\ j < last

\* a reflected overlay of several tiles on an offscreen buffer has returned
C14_Witness ==
    /\ outcome = "returned" /\ call.op = "textureOverlay"
    /\ call.target = "pg1" /\ call._reflect
    /\ Cardinality(Positions(IsImage)) >= 4
    /\ IsReset(hostCalls[Len(hostCalls)])

IsPush(e) == e.f = "push"
IsPop(e) == e.f = "pop"
IsScale(e) == e.f = "scale"

\* the depth of the transform stack after the first j host calls of the
\* call, above its depth at the start of the call
StackDepth(j) ==
    Cardinality({k \in Positions(IsPush) : k <= j})
        - Cardinality({k \in Positions(IsPop) : k <= j})

\* C15: with reflect = true every tile draw of textureOverlay has one push
\* before it and the matching pop right after it, a scale comes only
\* between that push and the draw, and the transform stack is never more
\* than 1 deeper than at call start and is back at that depth after each
\* tile and at the end; with reflect = false there is no push, pop or scale
C15_FlipScopedToTile ==
    Swept =>
        IF call._reflect
        THEN /\ \A j \in 1..Len(hostCalls) : StackDepth(j) \in {0, 1}
             /\ StackDepth(Len(hostCalls)) = 0
             /\ \A j \in Positions(IsImage) :
                    /\ StackDepth(j) = 1
                    /\ j < Len(hostCalls) /\ IsPop(hostCalls[j + 1])
                    /\ \/ IsPush(hostCalls[j - 1])
                       \/ IsScale(hostCalls[j - 1]) /\ IsPush(hostCalls[j - 2])
             /\ \A j \in Positions(IsScale) :
                    IsPush(hostCalls[j - 1]) /\ IsImage(hostCalls[j + 1])
             /\ \A j \in Positions(IsPush) :
                    IsImage(hostCalls[j + 1]) \/ IsScale(hostCalls[j + 1])
             /\ \A j \in Positions(IsPop) : IsImage(hostCalls[j - 1])
        ELSE Positions(IsPush) \cup Positions(IsPop) \cup Positions(IsScale) = {}

\* a reflected overlay has drawn tiles in all four orientations
C15_Witness ==
    /\ Swept /\ outcome = "returned" /\ call._reflect
    /\ Cardinality({hostCalls[j].a : j \in Positions(IsScale)}) = 3
    /\ Cardinality(Positions(IsPush)) > Cardinality(Positions(IsScale))

\* C16: the overlay counter and anchor are changed only by a textureOverlay
\* call with animate truthy, and the textureAnimate counter only by a
\* textureAnimate call: every other call of the six operations, and every
\* call that throws, leaves them as they were
C16_AnimationStateFrame ==
    [][/\ textureOverlayState' # textureOverlayState =>
            /\ call'.op = "textureOverlay" /\ outcome' = "returned"
            /\ call'._animate
       /\ textureAnimateState' # textureAnimateState =>
            call'.op = "textureAnimate" /\ outcome' = "returned"
      ]_vars

\* an overlay without animation has returned with both counters and the
\* anchor as earlier animated calls left them
C16_Witness ==
    /\ outcome = "returned" /\ call.op = "textureOverlay" /\ ~call._animate
    /\ textureOverlayState.frameCount = 1 /\ anchorX < 0 /\ anchorY < 0
    /\ textureAnimateState.frameCount = 1
    /\ pixels # <<>> /\ random = "myRandom"
====
